---- MODULE Spec2Model ----
(***************************************************************************)
(* The make-transformations pass of quicktype and the Transformer          *)
(* hierarchy it builds (MakeTransformations.ts and Transformers.ts, both    *)
(* in src/unnamed/part_000).                                                *)
(*                                                                         *)
(* The pass rewrites a type graph: every union the target language flags   *)
(* is replaced by an "any" placeholder carrying a Transformation.  The     *)
(* graph rewrite builder (GraphRewriting.ts) is not part of the sources;   *)
(* its operations are modelled from section 4.2 of the specification.      *)
(***************************************************************************)
EXTENDS Integers, Sequences, FiniteSets, TLC

\* ------------------------------------------------------------------ bounds
\* Number of union nodes of the input graph.
NumUnions == 2
\* Largest number of populated slots of a DecodingTransformer drawn as an
\* input of equals / hashCode.
MaxPopulated == 1

\* ------------------------------------------------------- the input graph
\* Old nodes 1..5 are the scalar primitives, 6 is a class with one property,
\* 7 is an array, 8.. are the unions.
PrimKindOf == <<"null", "integer", "double", "bool", "string">>
ScalarKinds == {"null", "integer", "double", "bool", "string"}
Prims == 1..Len(PrimKindOf)
ClassNode == Len(PrimKindOf) + 1
ArrayNode == Len(PrimKindOf) + 2
FirstUnion == Len(PrimKindOf) + 3
Unions == FirstUnion..(FirstUnion + NumUnions - 1)
OldNodes == 1..(FirstUnion + NumUnions - 1)

\* The seven raw-value shapes, in the order of the DecodingTransformer
\* constructor's parameters.
Shapes == <<"null", "integer", "double", "bool", "string", "array", "object">>
ShapeSet == {"null", "integer", "double", "bool", "string", "array", "object"}

\* JavaScript's undefined, and a TypeRef value (a handle on a node).
Undefined == [variant |-> "undefined"]
TypeRef(id) == [variant |-> "TypeRef", ref |-> id]

\* A slot of the new generation that no node has been written into yet.
Unbound == [kind |-> "unbound"]

\* An attribute map holds at most one value per attribute kind; the kinds of
\* the model are the names of a type and its "transformation".
NoTransformation == [variant |-> "none"]
NoNames == ""
Attributes(names, xf) == [names |-> names, transformation |-> xf]
emptyTypeAttributes == Attributes(NoNames, NoTransformation)

EmptyFcn == [x \in {} |-> x]
NoBuilder == [types |-> EmptyFcn, reconstituted |-> EmptyFcn, current |-> 0, failure |-> ""]

VARIABLES
    graph,      \* the old generation: node -> [kind, children, attrs]
    needsSigs,  \* the target predicate: the (member kinds, attributes) it flags
    pc,         \* "idle", "rewriting", "done" or "failed"
    groups,     \* the singleton groups, as the set of their unions
    replaced,   \* the groups whose replacer has run
    builder,    \* the transient GraphRewriteBuilder
    result,     \* the published new generation (<<>> while none is)
    failure,    \* the message of the failed assertion ("" while none)
    observed,   \* what a consumer last read off a placeholder
    xa, xb,     \* two Transformers or Transformations under comparison
    cmp,        \* the outcome of comparing xa and xb
    pass        \* the number of the rewrite pass under way, from 1

passVars == <<graph, needsSigs, pc, groups, replaced, builder, result, failure, observed, pass>>
eqVars == <<xa, xb, cmp, pass>>
vars == <<graph, needsSigs, pc, groups, replaced, builder, result, failure, observed, xa, xb, cmp,
          pass>>

\* ------------------------------------------------------------ old graph
\* The elements of a set of numbers, in ascending order.
RECURSIVE SeqOfSet(_)
SeqOfSet(S) ==
    IF S = {}
    THEN <<>>
    ELSE LET m == CHOOSE x \in S : \A y \in S : x <= y
         IN <<m>> \o SeqOfSet(S \ {m})

RangeOf(s) == {s[i] : i \in DOMAIN s}

\* Type.kind and the kinds of a union's members.
MemberKinds(g, u) == {g[g[u].children[i]].kind : i \in DOMAIN g[u].children}

\* UnionType.findMember(kind): the member of that kind, or undefined (0).
findMember(g, u, kind) ==
    IF \E i \in DOMAIN g[u].children : g[g[u].children[i]].kind = kind
    THEN g[u].children[CHOOSE i \in DOMAIN g[u].children : g[g[u].children[i]].kind = kind]
    ELSE 0

\* The target's predicate depends on a union's member kinds and attributes.
needsTransformerForUnion(kinds, attrs) == <<kinds, attrs>> \in needsSigs

\* ------------------------------------------- the graph rewrite builder
\* A builder bd holds the nodes of the new generation (types), the image of
\* every old node reconstituted so far (reconstituted; a group's union is
\* bound to the group's forwarding slot from the start) and the group whose
\* replacer is running (current, 0 outside a replacer).
\*
\* A new node is named <<tag, old, serial>>: what it was built as, the old
\* node it was built for and how many nodes were built for that before.
Alloc(bd, tag, old) ==
    <<tag, old, Cardinality({id \in DOMAIN bd.types : id[1] = tag /\ id[2] = old})>>

Put(bd, id, node) ==
    [bd EXCEPT !.types = [x \in (DOMAIN @) \cup {id} |-> IF x = id THEN node ELSE @[x]]]

Remember(bd, t, id) ==
    [bd EXCEPT !.reconstituted = [x \in (DOMAIN @) \cup {t} |-> IF x = t THEN id ELSE @[x]]]

\* body(v) for the value v of an expression that is evaluated once.
Let(v, body(_)) == CHOOSE out \in {body(x) : x \in {v}} : TRUE

\* An exception raised while the builder runs.  The first one is kept; what
\* is computed after it is dropped by the rewrite, which ends with it.
Throw(bd, msg) == IF bd.failure = "" THEN [bd EXCEPT !.failure = msg] ELSE bd

\* builder.reconstituteType(t): the image of t, built (with the images of all
\* it references, and with its attributes reconstituted by their kinds) on
\* the first call and looked up on every later one.
RECURSIVE reconstituteType(_, _, _)
RECURSIVE reconstituteAll(_, _, _)
RECURSIVE transformationReconstitute(_, _, _)

\* An attribute map that holds a Transformation, each value reconstituted by
\* its kind: names are plain values, the Transformation is reconstituted.
reconstituteAttributes(g, bd, attrs) ==
    Let(transformationReconstitute(g, bd, attrs.transformation),
        LAMBDA r : [bd |-> r.bd, attrs |-> [attrs EXCEPT !.transformation = r.xf]])

reconstituteType(g, bd, t) ==
    IF t \in DOMAIN bd.reconstituted
    THEN [bd |-> bd, ref |-> bd.reconstituted[t]]
    ELSE LET id == Alloc(bd, "img", t)
             reserved == Remember(Put(bd, id, Unbound), t, id)
         IN Let(reconstituteAll(g, reserved, g[t].children), LAMBDA r :
                IF g[t].attrs.transformation = NoTransformation
                THEN [bd |-> Put(r.bd, id, [kind |-> g[t].kind, children |-> r.refs,
                                            attrs |-> g[t].attrs]),
                      ref |-> id]
                ELSE Let(reconstituteAttributes(g, r.bd, g[t].attrs), LAMBDA a :
                         [bd |-> Put(a.bd, id, [kind |-> g[t].kind, children |-> r.refs,
                                                attrs |-> a.attrs]),
                          ref |-> id]))

reconstituteAll(g, bd, ts) ==
    IF ts = <<>>
    THEN [bd |-> bd, refs |-> <<>>]
    ELSE Let(reconstituteType(g, bd, Head(ts)), LAMBDA r1 :
             Let(reconstituteAll(g, r1.bd, Tail(ts)), LAMBDA r2 :
                 [bd |-> r2.bd, refs |-> <<r1.ref>> \o r2.refs]))

\* The kinds of the nodes a sequence of new references resolves to.
KindsOf(types, refs) == {types[refs[i]].kind : i \in DOMAIN refs}

\* builder.getUnionType(attrs, members): a fresh union node; it asserts that
\* the members are non-empty and of distinct kinds.
getUnionType(bd, attrs, members) ==
    IF members = <<>> \/ Cardinality(KindsOf(bd.types, members)) # Len(members)
    THEN [bd |-> bd, ref |-> Undefined, failure |-> "getUnionType: malformed union"]
    ELSE LET id == Alloc(bd, "union", bd.current)
         IN [bd |-> Put(bd, id, [kind |-> "union", children |-> members, attrs |-> attrs]),
             ref |-> id, failure |-> ""]

\* builder.getPrimitiveType(kind, attrs?, forwardingRef?): a primitive node,
\* written into the forwarding slot when one is given and into a fresh node
\* otherwise.
NoForwardingRef == <<>>

getPrimitiveType(bd, kind, attrs, forwardingRef) ==
    LET id == IF forwardingRef = NoForwardingRef THEN Alloc(bd, kind, bd.current) ELSE forwardingRef
    IN [bd |-> Put(bd, id, [kind |-> kind, children |-> <<>>, attrs |-> attrs]), ref |-> id]

\* The forwarding slot the builder pre-allocates for the group of union u.
ForwardingRef(u) == <<"fwd", u, 0>>

\* The builder of one rewrite: every group's union is bound to its slot.
NewBuilder(gs) ==
    [types |-> [id \in {ForwardingRef(u) : u \in gs} |-> Unbound],
     reconstituted |-> [u \in gs |-> ForwardingRef(u)],
     current |-> 0,
     failure |-> ""]

\* ------------------------------------------------------- Transformers.ts
\* A call binds its arguments to the constructor's parameters by position:
\* an argument beyond the last parameter is dropped, a parameter without an
\* argument is undefined.
Arg(args, i) == IF i <= Len(args) THEN args[i] ELSE Undefined

ShapeIndex(k) == CHOOSE i \in DOMAIN Shapes : Shapes[i] = k

\* new DecodingTransformer(nullTransformer, integerTransformer,
\*     doubleTransformer, boolTransformer, stringTransformer,
\*     arrayTransformer, objectTransformer)
DecodingTransformer(args) ==
    [variant |-> "Decoding", slots |-> [k \in ShapeSet |-> Arg(args, ShapeIndex(k))]]

\* new UnionInstantiationTransformer(_unionRef)
UnionInstantiationTransformer(args) ==
    [variant |-> "UnionInstantiation", unionRef |-> Arg(args, 1)]

\* new Transformation(_targetTypeRef, transformer)
Transformation(args) ==
    [variant |-> "Transformation", targetTypeRef |-> Arg(args, 1), transformer |-> Arg(args, 2)]

\* transformationTypeAttributeKind.makeAttributes(xf): the singleton map.
makeAttributes(xf) == Attributes(NoNames, xf)

\* transformationForType(t): the node's Transformation, or absent.
transformationForType(node) == node.attrs.transformation

\* The outcome of a call: a value, or the error it threw.
Ok(v) == [ok |-> TRUE, value |-> v]
Threw(msg) == [ok |-> FALSE, error |-> msg]

IsTransformer(x) == x.variant \in {"Decoding", "UnionInstantiation"}

\* UnionInstantiationTransformer.unionType: the union the reference resolves
\* to, or the panic.
unionType(types, xf) ==
    IF types[xf.unionRef.ref].kind = "union"
    THEN Ok(xf.unionRef.ref)
    ELSE Threw("Union instantiator with the wrong type")

\* Transformer.getChildren(): the Types of the tree, as a set of nodes.  A
\* slot holding a value that is no Transformer has no getChildren to call.
RECURSIVE getChildren(_, _)
slotChildren(types, x) ==
    IF x = Undefined THEN Ok({})
    ELSE IF IsTransformer(x) THEN getChildren(types, x)
    ELSE Threw("getChildren is not a function")

getChildren(types, xf) ==
    IF xf.variant = "UnionInstantiation"
    THEN LET u == unionType(types, xf)
         IN IF u.ok THEN Ok({u.value}) ELSE u
    ELSE LET rs == [i \in DOMAIN Shapes |-> slotChildren(types, xf.slots[Shapes[i]])]
             bad == {i \in DOMAIN Shapes : ~rs[i].ok}
         IN IF bad # {}
            THEN rs[CHOOSE i \in bad : \A j \in bad : i <= j]
            ELSE Ok(UNION {rs[i].value : i \in DOMAIN Shapes})

\* Transformation.targetType and Transformation.getChildren().
targetType(xf) == xf.targetTypeRef.ref

transformationChildren(types, xf) ==
    LET r == slotChildren(types, xf.transformer)
    IN IF r.ok THEN Ok(r.value \cup {targetType(xf)}) ELSE r

\* Transformer.reconstitute(builder), called on a value x: a value that is no
\* Transformer has no reconstitute to call.  [bd, xf]
RECURSIVE reconstitute(_, _, _)
callReconstitute(g, bd, x) ==
    IF IsTransformer(x)
    THEN reconstitute(g, bd, x)
    ELSE [bd |-> Throw(bd, "TypeError: xf.reconstitute is not a function"), xf |-> Undefined]

\* The local function reconstitute(xf) of DecodingTransformer.reconstitute.
reconstituteSlot(g, bd, x) ==
    IF x = Undefined
    THEN [bd |-> bd, xf |-> Undefined]
    ELSE callReconstitute(g, bd, x)

\* The arguments of the constructor call of DecodingTransformer.reconstitute,
\* evaluated from the i-th on, left to right.  [bd, args]
RECURSIVE reconstituteSlots(_, _, _, _)
reconstituteSlots(g, bd, xf, i) ==
    IF i > Len(Shapes)
    THEN [bd |-> bd, args |-> <<>>]
    ELSE Let(reconstituteSlot(g, bd, xf.slots[Shapes[i]]), LAMBDA r1 :
             Let(reconstituteSlots(g, r1.bd, xf, i + 1), LAMBDA r2 :
                 [bd |-> r2.bd, args |-> <<r1.xf>> \o r2.args]))

decodingReconstitute(g, bd, xf) ==
    Let(reconstituteSlots(g, bd, xf, 1), LAMBDA r :
        [bd |-> r.bd, xf |-> DecodingTransformer(r.args)])

\* builder.reconstituteTypeRef(ref) is reconstituteType of the node of ref.
unionInstantiationReconstitute(g, bd, xf) ==
    Let(reconstituteType(g, bd, xf.unionRef.ref), LAMBDA r :
        [bd |-> r.bd, xf |-> UnionInstantiationTransformer(<<TypeRef(r.ref)>>)])

reconstitute(g, bd, xf) ==
    IF xf.variant = "Decoding"
    THEN decodingReconstitute(g, bd, xf)
    ELSE unionInstantiationReconstitute(g, bd, xf)

\* Transformation.reconstitute(builder): the target first, then the
\* transformer.
transformationReconstitute(g, bd, xf) ==
    Let(reconstituteType(g, bd, xf.targetTypeRef.ref), LAMBDA t :
        Let(callReconstitute(g, t.bd, xf.transformer), LAMBDA r :
            [bd |-> r.bd, xf |-> Transformation(<<TypeRef(t.ref), r.xf>>)]))

\* TypeRef.equals and TypeRef.hashCode: a reference is its node's identity.
typeRefEquals(r1, r2) == r1.ref = r2.ref
typeRefHashCode(r) == r.ref

\* 32-bit integers, held as two 16-bit limbs while they are combined.
Limb == 2 ^ 16
Lo(x) == x % Limb
Hi(x) == ((x - Lo(x)) \div Limb) % Limb
Int32(hi, lo) == (IF hi >= Limb \div 2 THEN hi - Limb ELSE hi) * Limb + lo

\* Support.hashCodeInit and Support.addHashCode(acc, h):
\* (acc * 31 + (h | 0)) | 0.
hashCodeInit == 17
addHashCode(acc, h) ==
    LET lo == Lo(acc) * 31 + Lo(h)
        hi == Hi(acc) * 31 + Hi(h) + lo \div Limb
    IN Int32(hi % Limb, lo % Limb)

\* equals(other) of the three classes, with immutable's is(x, y) for the
\* slots: true of two undefined, false of one, x.equals(y) of two objects.
RECURSIVE equals(_, _)
is(x, y) ==
    IF x = Undefined /\ y = Undefined THEN TRUE
    ELSE IF x = Undefined \/ y = Undefined THEN FALSE
    ELSE equals(x, y)

\* DecodingTransformer.equals with the object slot not compared.
decodingEquals_sixSlots(x, other) ==
    /\ other.variant = "Decoding"
    /\ \A i \in DOMAIN Shapes :
          Shapes[i] # "object" => is(x.slots[Shapes[i]], other.slots[Shapes[i]])

decodingEquals(x, other) ==
    /\ other.variant = "Decoding"
    /\ \A i \in DOMAIN Shapes : is(x.slots[Shapes[i]], other.slots[Shapes[i]])

unionInstantiationEquals(x, other) ==
    /\ other.variant = "UnionInstantiation"
    /\ typeRefEquals(x.unionRef, other.unionRef)

transformationEquals(x, other) ==
    /\ other.variant = "Transformation"
    /\ typeRefEquals(x.targetTypeRef, other.targetTypeRef)
    /\ equals(x.transformer, other.transformer)

equals(x, other) ==
    IF x.variant = "Decoding" THEN decodingEquals(x, other)
    ELSE IF x.variant = "UnionInstantiation" THEN unionInstantiationEquals(x, other)
    ELSE transformationEquals(x, other)

\* hashCode() of the three classes, with immutable's hash(x) for the slots:
\* 0 of undefined, x.hashCode() of an object.
RECURSIVE hashCode(_)
hash(x) == IF x = Undefined THEN 0 ELSE hashCode(x)

RECURSIVE hashSlots(_, _, _)
hashSlots(x, h, i) ==
    IF i > Len(Shapes) THEN h
    ELSE hashSlots(x, addHashCode(h, hash(x.slots[Shapes[i]])), i + 1)

hashCode(x) ==
    IF x.variant = "Decoding" THEN hashSlots(x, hashCodeInit, 1)
    ELSE IF x.variant = "UnionInstantiation" THEN typeRefHashCode(x.unionRef)
    ELSE addHashCode(typeRefHashCode(x.targetTypeRef), hashCode(x.transformer))

\* ------------------------------------------------- MakeTransformations.ts
\* transformerForKind reconstituting the member afresh, past the images the
\* builder already holds.
transformerForKind_uncached(g, bd, union, reconstitutedUnion, kind) ==
    LET member == findMember(g, union, kind)
    IN IF member = 0
       THEN [bd |-> bd, xf |-> Undefined]
       ELSE LET forgot == [bd EXCEPT !.reconstituted =
                              [t \in (DOMAIN @) \ {member} |-> @[t]]]
                r == reconstituteType(g, forgot, member)
            IN [bd |-> r.bd,
                xf |-> UnionInstantiationTransformer(
                           <<TypeRef(r.ref), TypeRef(reconstitutedUnion)>>)]

\* transformerForKind(kind) of replace: [bd, xf].
transformerForKind(g, bd, union, reconstitutedUnion, kind) ==
    LET member == findMember(g, union, kind)
    IN IF member = 0
       THEN [bd |-> bd, xf |-> Undefined]
       ELSE LET r == reconstituteType(g, bd, member)
            IN [bd |-> r.bd,
                xf |-> UnionInstantiationTransformer(
                           <<TypeRef(r.ref), TypeRef(reconstitutedUnion)>>)]

\* The assertion of replace, left out.
membersNonEmpty_unchecked(g, union) == TRUE

\* The assertion of replace: the union has members.
membersNonEmpty(g, union) == g[union].children # <<>>

\* The union U' built without the union's attributes.
buildReconstitutedUnion_noAttributes(g, bd, union) ==
    LET ms == reconstituteAll(g, bd, g[union].children)
    IN getUnionType(ms.bd, emptyTypeAttributes, ms.refs)

\* The union U' built over members reconstituted anew, whatever images of
\* them the builder holds by then.
buildReconstitutedUnion_freshMembers(g, bd, union) ==
    LET forgot == [bd EXCEPT !.reconstituted =
                      [t \in (DOMAIN @) \ RangeOf(g[union].children) |-> @[t]]]
        ms == reconstituteAll(g, forgot, g[union].children)
    IN getUnionType(ms.bd, g[union].attrs, ms.refs)

\* The union U' replace builds first: the union's attributes over its
\* reconstituted members.  [bd, ref, failure]
buildReconstitutedUnion(g, bd, union) ==
    LET ms == reconstituteAll(g, bd, g[union].children)
    IN getUnionType(ms.bd, g[union].attrs, ms.refs)

\* The DecodingTransformer of replace, called with eight arguments: a fresh
\* "any" and the five transformerForKind results, then undefined twice.
\* [bd, xf]
buildTransformer(g, bd, union, reconstitutedUnion) ==
    LET p0 == getPrimitiveType(bd, "any", emptyTypeAttributes, NoForwardingRef)
        t1 == transformerForKind(g, p0.bd, union, reconstitutedUnion, "null")
        t2 == transformerForKind(g, t1.bd, union, reconstitutedUnion, "integer")
        t3 == transformerForKind(g, t2.bd, union, reconstitutedUnion, "double")
        t4 == transformerForKind(g, t3.bd, union, reconstitutedUnion, "bool")
        t5 == transformerForKind(g, t4.bd, union, reconstitutedUnion, "string")
    IN [bd |-> t5.bd,
        xf |-> DecodingTransformer(
                   <<TypeRef(p0.ref), t1.xf, t2.xf, t3.xf, t4.xf, t5.xf, Undefined, Undefined>>)]

\* The placeholder built as a fresh node, the forwarding slot not passed on.
buildPlaceholder_notForwarded(bd, attributes, forwardingRef) ==
    getPrimitiveType(bd, "any", attributes, NoForwardingRef)

\* The node replace returns: an "any" with the attributes, written into the
\* group's forwarding slot.  [bd, ref]
buildPlaceholder(bd, attributes, forwardingRef) ==
    getPrimitiveType(bd, "any", attributes, forwardingRef)

\* replace returning the forwarding slot as it is for a union without
\* members, where the code raises the assertion.
replace_toleratesEmpty(g, bd, union, forwardingRef) ==
    IF g[union].children = <<>>
    THEN [bd |-> bd, ref |-> forwardingRef, failure |-> ""]
    ELSE
    LET ru == buildReconstitutedUnion(g, bd, union)
    IN IF ru.failure # ""
       THEN [bd |-> ru.bd, ref |-> Undefined, failure |-> ru.failure]
       ELSE
       LET tr == buildTransformer(g, ru.bd, union, ru.ref)
           transformation == Transformation(<<TypeRef(ru.ref), tr.xf>>)
           attributes == makeAttributes(transformation)
           p1 == buildPlaceholder(tr.bd, attributes, forwardingRef)
       IN [bd |-> p1.bd, ref |-> p1.ref, failure |-> ""]

\* replace(setOfOneUnion, builder, forwardingRef): [bd, ref, failure].
replace(g, bd, union, forwardingRef) ==
    IF ~membersNonEmpty(g, union)
    THEN [bd |-> bd, ref |-> Undefined, failure |-> "We can't have empty unions"]
    ELSE
    LET ru == buildReconstitutedUnion(g, bd, union)
    IN IF ru.failure # ""
       THEN [bd |-> ru.bd, ref |-> Undefined, failure |-> ru.failure]
       ELSE
       LET tr == buildTransformer(g, ru.bd, union, ru.ref)
           transformation == Transformation(<<TypeRef(ru.ref), tr.xf>>)
           attributes == makeAttributes(transformation)
           p1 == buildPlaceholder(tr.bd, attributes, forwardingRef)
       IN [bd |-> p1.bd, ref |-> p1.ref, failure |-> ""]

\* The filter of makeTransformations with the predicate's answer inverted, and
\* with the predicate not asked at all.
QualifyingUnions_inverted(g) ==
    {t \in DOMAIN g : g[t].kind = "union"
                      /\ ~needsTransformerForUnion(MemberKinds(g, t), g[t].attrs)}

QualifyingUnions_everyUnion(g) == {t \in DOMAIN g : g[t].kind = "union"}

\* The unions makeTransformations selects: one singleton group for each.
QualifyingUnions(g) ==
    {t \in DOMAIN g : g[t].kind = "union"
                      /\ needsTransformerForUnion(MemberKinds(g, t), g[t].attrs)}

\* ------------------------------------------------------------ the inputs
\* The first union ranges over every set of scalar members (the empty,
\* malformed one included); the other unions over three shapes, two of them
\* with a composite member.
FirstChoices == {SeqOfSet(K) : K \in SUBSET Prims}
OtherChoices == {<<2, 5>>, <<1, ClassNode>>, <<5, ArrayNode>>}

MemberAssignments ==
    {[u \in Unions |-> IF u = FirstUnion THEN first ELSE others[u]] :
        first \in FirstChoices, others \in [Unions \ {FirstUnion} -> OtherChoices]}

UnionNames(u) == IF u = FirstUnion THEN "A" ELSE "B"

MkGraph(prop, items, mem) ==
    [n \in OldNodes |->
        IF n \in Prims
        THEN [kind |-> PrimKindOf[n], children |-> <<>>, attrs |-> emptyTypeAttributes]
        ELSE IF n = ClassNode
        THEN [kind |-> "class", children |-> <<prop>>,
              attrs |-> Attributes("C", NoTransformation)]
        ELSE IF n = ArrayNode
        THEN [kind |-> "array", children |-> <<items>>, attrs |-> emptyTypeAttributes]
        ELSE [kind |-> "union", children |-> mem[n],
              attrs |-> Attributes(UnionNames(n), NoTransformation)]]

Sig(g, u) == <<MemberKinds(g, u), g[u].attrs>>

NoObservation == [node |-> Undefined]

InitPass ==
    /\ \E prop \in Unions \cup {2}, items \in {FirstUnion, 5}, mem \in MemberAssignments :
           graph = MkGraph(prop, items, mem)
    /\ needsSigs \in SUBSET {Sig(graph, u) : u \in Unions}
    /\ pc = "idle"
    /\ groups = {}
    /\ replaced = {}
    /\ builder = NoBuilder
    /\ result = EmptyFcn
    /\ failure = ""
    /\ observed = NoObservation
    /\ pass = 1

Init ==
    /\ InitPass
    /\ xa = Undefined
    /\ xb = Undefined
    /\ cmp = Undefined

\* ------------------------------------------------------------- the pass
\* makeTransformations, up to the call of graph.rewrite: the groups are
\* chosen and the builder is set up.
MakeTransformations ==
    /\ pc = "idle"
    /\ pc' = "rewriting"
    /\ groups' = QualifyingUnions(graph)
    /\ builder' = NewBuilder(QualifyingUnions(graph))
    /\ UNCHANGED <<graph, needsSigs, replaced, result, failure, observed, xa, xb, cmp, pass>>

\* The builder invokes the replacer on the group of union u.
Replace(u) ==
    /\ pc = "rewriting"
    /\ u \in groups \ replaced
    /\ \E r \in {replace(graph, [builder EXCEPT !.current = u], u, ForwardingRef(u))} :
          /\ builder' = [r.bd EXCEPT !.current = 0]
          /\ IF r.failure # "" \/ r.bd.failure # ""
             THEN /\ pc' = "failed"
                  /\ failure' = IF r.bd.failure # "" THEN r.bd.failure ELSE r.failure
                  /\ replaced' = replaced
             ELSE /\ pc' = pc
                  /\ failure' = failure
                  /\ replaced' = replaced \cup {u}
    /\ UNCHANGED <<graph, needsSigs, groups, result, observed, xa, xb, cmp, pass>>

\* The composite nodes of a graph: its classes, arrays and unions.
Composite(g) == {t \in DOMAIN g : g[t].kind \in {"class", "array", "union"}}

\* The builder reconstitutes a composite node outside all groups; an exception
\* raised on the way ends the rewrite.
Reconstitute(t) ==
    /\ pc = "rewriting"
    /\ t \in Composite(graph)
    /\ t \notin DOMAIN builder.reconstituted
    /\ \E r \in {reconstituteType(graph, builder, t)} :
          /\ builder' = r.bd
          /\ IF r.bd.failure # ""
             THEN pc' = "failed" /\ failure' = r.bd.failure
             ELSE pc' = pc /\ failure' = failure
    /\ UNCHANGED <<graph, needsSigs, groups, replaced, result, observed, xa, xb, cmp, pass>>

\* graph.rewrite returns: the nodes not reconstituted yet (the leaves) are,
\* and the new generation is published, unless that raised an exception.
Finish ==
    /\ pc = "rewriting"
    /\ replaced = groups
    /\ Composite(graph) \subseteq DOMAIN builder.reconstituted
    /\ \E r \in {reconstituteAll(graph, builder, SeqOfSet(DOMAIN graph))} :
          /\ builder' = r.bd
          /\ IF r.bd.failure # ""
             THEN pc' = "failed" /\ failure' = r.bd.failure /\ result' = result
             ELSE pc' = "done" /\ failure' = failure /\ result' = r.bd.types
    /\ UNCHANGED <<graph, needsSigs, groups, replaced, observed, xa, xb, cmp, pass>>

\* The populated slots of a DecodingTransformer.
Populated(xf) == {k \in ShapeSet : xf.slots[k] # Undefined}

\* Whether a node of the new generation carries a Transformation.
HasTransformation(node) ==
    /\ node.kind # "unbound"
    /\ transformationForType(node) # NoTransformation

\* A backend reads a placeholder of the returned graph: its Transformation's
\* children and the union of the transformer in each populated slot.
Inspect(p) ==
    /\ pc = "done"
    /\ p \in DOMAIN result
    /\ HasTransformation(result[p])
    /\ LET xf == transformationForType(result[p])
       IN observed' =
            [node |-> TypeRef(p),
             children |-> transformationChildren(result, xf),
             unionTypes |->
                [k \in Populated(xf.transformer) |->
                    IF xf.transformer.slots[k].variant = "UnionInstantiation"
                    THEN unionType(result, xf.transformer.slots[k])
                    ELSE Threw("unionType of a value that is no UnionInstantiationTransformer")]]
    /\ UNCHANGED <<graph, needsSigs, pc, groups, replaced, builder, result, failure, xa, xb, cmp, pass>>

Next ==
    \/ MakeTransformations
    \/ \E u \in DOMAIN graph : Replace(u)
    \/ \E t \in DOMAIN graph : Reconstitute(t)
    \/ Finish
    \/ \E p \in DOMAIN result : Inspect(p)

Spec == Init /\ [][Next]_vars

\* ------------------------------------------------- one pass after another
\* The number of rewrite passes run one after the other.
MaxPasses == 2

\* A node of a graph is known by its index.  In the graph a rewrite returned,
\* the image (or the replacement) of the old node t keeps the index t; the
\* nodes built in the replacers follow, in the order of their groups.
TagRank(tag) == IF tag = "union" THEN 0 ELSE IF tag = "any" THEN 1 ELSE 2

Kept(types) == {id \in DOMAIN types : id[1] \in {"img", "fwd"} /\ id[3] = 0}

Key(types, id) ==
    ((id[2] * 3) + TagRank(id[1])) * (Cardinality(DOMAIN types) + 1) + id[3]

Index(types, id) ==
    IF id \in Kept(types)
    THEN id[2]
    ELSE Cardinality(Kept(types)) + 1
         + Cardinality({e \in (DOMAIN types) \ Kept(types) : Key(types, e) < Key(types, id)})

\* A TypeRef, Transformer or Transformation, its TypeRefs told by index.
RECURSIVE Indexed(_, _)
Indexed(types, x) ==
    IF x.variant = "TypeRef" THEN TypeRef(Index(types, x.ref))
    ELSE IF x.variant = "UnionInstantiation"
    THEN [x EXCEPT !.unionRef = Indexed(types, @)]
    ELSE IF x.variant = "Decoding"
    THEN [x EXCEPT !.slots = [k \in ShapeSet |-> Indexed(types, @[k])]]
    ELSE IF x.variant = "Transformation"
    THEN [x EXCEPT !.targetTypeRef = Indexed(types, @), !.transformer = Indexed(types, @)]
    ELSE x

\* The returned generation as a graph: the old graph of the next rewrite.
AsGraph(types) ==
    [n \in {Index(types, id) : id \in DOMAIN types} |->
        LET node == types[CHOOSE id \in DOMAIN types : Index(types, id) = n]
        IN [kind |-> node.kind,
            children |-> [i \in DOMAIN node.children |-> Index(types, node.children[i])],
            attrs |-> [node.attrs EXCEPT !.transformation = Indexed(types, @)]]]

\* The graph a rewrite returned is rewritten again, with the same predicate.
NextPass ==
    /\ pc = "done"
    /\ pass < MaxPasses
    /\ pass' = pass + 1
    /\ graph' = AsGraph(result)
    /\ pc' = "idle"
    /\ groups' = {}
    /\ replaced' = {}
    /\ builder' = NoBuilder
    /\ result' = EmptyFcn
    /\ observed' = NoObservation
    /\ UNCHANGED <<needsSigs, failure, xa, xb, cmp>>

NextPasses == Next \/ NextPass

SpecPasses == Init /\ [][NextPasses]_vars

TypeOK ==
    /\ pc \in {"idle", "rewriting", "done", "failed"}
    /\ groups \subseteq DOMAIN graph
    /\ replaced \subseteq groups

\* ----------------------------------------- comparing two Transformers
\* The inputs of equals and hashCode: trees over the nodes RefIds of one
\* generation, built independently of each other.
RefIds == {1, 2}
Leaves == {UnionInstantiationTransformer(<<TypeRef(r)>>) : r \in RefIds}

\* The DecodingTransformers with at most n populated slots, each populated
\* slot holding a transformer of T.
Decoders(T, n) ==
    {[variant |-> "Decoding",
      slots |-> [k \in ShapeSet |-> IF k \in DOMAIN f THEN f[k] ELSE Undefined]] :
        f \in UNION {[S -> T] : S \in {P \in SUBSET ShapeSet : Cardinality(P) <= n}}}

SparseTrees == Leaves \cup Decoders(Leaves \cup Decoders(Leaves, 1), 1)
Trees == Leaves \cup Decoders(Leaves, MaxPopulated)
              \cup Decoders(Leaves \cup Decoders(Leaves, 1), 1)

Transformations(T) ==
    {Transformation(<<TypeRef(r), x>>) : r \in RefIds, x \in T}

InitEq ==
    /\ graph = MkGraph(2, 5, [u \in Unions |-> <<2, 5>>])
    /\ needsSigs = {}
    /\ pc = "idle"
    /\ groups = {}
    /\ replaced = {}
    /\ builder = NoBuilder
    /\ result = EmptyFcn
    /\ failure = ""
    /\ observed = NoObservation
    /\ pass = 1
    /\ xa \in Trees \cup Transformations(Leaves \cup Decoders(Leaves, 1))
    /\ xb \in {xa} \cup SparseTrees \cup Transformations(Leaves \cup Decoders(Leaves, 1))
    /\ cmp = Undefined

\* xa and xb are compared both ways, xa with itself, and both are hashed.
Compare ==
    /\ cmp = Undefined
    /\ cmp' = [variant |-> "compared",
               ab |-> equals(xa, xb), ba |-> equals(xb, xa), aa |-> equals(xa, xa),
               ha |-> hashCode(xa), hb |-> hashCode(xb)]
    /\ UNCHANGED <<graph, needsSigs, pc, groups, replaced, builder, result, failure,
                   observed, xa, xb, pass>>

NextEq == Compare

SpecEq == InitEq /\ [][NextEq]_vars

\* ------------------------------------------------------------ properties
\* The Transformation on the replacement of the group of union u, once the
\* group's replacer has run.
Replacement(u) == builder.types[ForwardingRef(u)]
TransformationOf(u) == transformationForType(Replacement(u))
TransformerOf(u) == TransformationOf(u).transformer

\* The images of a sequence of old nodes.
Images(ts) == [i \in DOMAIN ts |-> builder.reconstituted[ts[i]]]

\* C1: for every replaced union u and every raw-value shape k, slot k of the
\* DecodingTransformer on u's replacement is populated if and only if k is a
\* scalar kind and u has a member of kind k.
C1_SlotsAreScalarMemberKinds ==
    \A u \in replaced : \A k \in ShapeSet :
        (k \in Populated(TransformerOf(u)))
            <=> (k \in ScalarKinds /\ k \in MemberKinds(graph, u))

\* C2: every populated slot of the DecodingTransformer on a replacement holds
\* a UnionInstantiationTransformer whose reference resolves to a union node,
\* the Transformation's target; and no read of unionType on such a
\* transformer panics.
C2_SlotsInstantiateTheTarget ==
    /\ \A u \in replaced : \A k \in Populated(TransformerOf(u)) :
          LET x == TransformerOf(u).slots[k]
          IN /\ x.variant = "UnionInstantiation"
             /\ builder.types[x.unionRef.ref].kind = "union"
             /\ x.unionRef.ref = targetType(TransformationOf(u))
    /\ observed # NoObservation =>
          \A k \in DOMAIN observed.unionTypes : observed.unionTypes[k].ok

\* C3: the array slot and the object slot of the DecodingTransformer on a
\* replacement are both empty, whatever the union's members.
C3_ArrayAndObjectSlotsEmpty ==
    \A u \in replaced :
        /\ TransformerOf(u).slots["array"] = Undefined
        /\ TransformerOf(u).slots["object"] = Undefined

\* A node of the new generation is the image of some old node.
IsImage(id) == \E t \in DOMAIN builder.reconstituted : builder.reconstituted[t] = id

\* C4: the node in the forwarding slot of a replaced union u is an "any"
\* carrying one Transformation, whose target is a union of the new
\* generation that is no image of an old node (it was built afresh), has
\* u's attributes and u's reconstituted members (so u's member kinds), and
\* is another node than the replacement.
C4_PlaceholderTargetsFreshUnion ==
    \A u \in replaced :
        /\ Replacement(u).kind = "any"
        /\ HasTransformation(Replacement(u))
        /\ Replacement(u).attrs = makeAttributes(TransformationOf(u))
        /\ TransformationOf(u).variant = "Transformation"
        /\ LET target == targetType(TransformationOf(u))
           IN /\ target \in DOMAIN builder.types
              /\ ~IsImage(target)
              /\ target # ForwardingRef(u)
              /\ \A v \in replaced \ {u} : target # targetType(TransformationOf(v))
              /\ builder.types[target].kind = "union"
              /\ builder.types[target].attrs = graph[u].attrs
              /\ builder.types[target].children = Images(graph[u].children)
              /\ KindsOf(builder.types, builder.types[target].children)
                    = MemberKinds(graph, u)

\* C4's case: the pass has returned after replacing a union one of whose
\* members refers back to it.
C4_Witness ==
    /\ pc = "done"
    /\ \E u \in replaced : \E i \in DOMAIN graph[u].children :
          /\ graph[graph[u].children[i]].children = <<u>>
          /\ result[ForwardingRef(u)].kind = "any"

\* C5 as stated: once the pass has returned, no union node of the output
\* graph satisfies needsTransformerForUnion, the fresh targets included.
C5_NoOutputUnionQualifies ==
    pc = "done" =>
        \A n \in DOMAIN result :
            result[n].kind = "union" =>
                ~needsTransformerForUnion(KindsOf(result, result[n].children),
                                          result[n].attrs)

\* Whether union node n of the output is the target of a placeholder's
\* Transformation.
IsTarget(n) ==
    \E p \in DOMAIN result :
        /\ result[p].kind = "any"
        /\ HasTransformation(result[p])
        /\ targetType(transformationForType(result[p])) = n

\* C5, amended: once the pass has returned, no union node of the output
\* graph other than the targets of the placeholders' Transformations
\* satisfies needsTransformerForUnion.
C5_OnlyTargetsQualify ==
    pc = "done" =>
        \A n \in DOMAIN result :
            (result[n].kind = "union"
                /\ needsTransformerForUnion(KindsOf(result, result[n].children),
                                            result[n].attrs))
            => IsTarget(n)

\* C5's case: the pass has returned a graph with a replaced union and a
\* union it left alone.
C5_Witness ==
    /\ pc = "done"
    /\ replaced # {}
    /\ \E n \in DOMAIN result : result[n].kind = "union" /\ ~IsTarget(n)

\* Whether node p of the output is the placeholder of qualifying union u: an
\* "any" whose Transformation targets the union built from u.
IsPlaceholderOf(p, u) ==
    /\ p \in DOMAIN result
    /\ result[p].kind = "any"
    /\ HasTransformation(result[p])
    /\ LET target == targetType(transformationForType(result[p]))
       IN /\ result[target].kind = "union"
          /\ result[target].attrs = graph[u].attrs
          /\ result[target].children = Images(graph[u].children)

\* C6: once the pass has returned, every reference of a node outside all
\* groups to a qualifying union u resolves, in the node's image, to u's
\* "any" placeholder: not to a union and not to an unbound slot.
C6_ReferencesRedirected ==
    pc = "done" =>
        \A t \in OldNodes \ groups : \A i \in DOMAIN graph[t].children :
            LET u == graph[t].children[i]
            IN (u \in Unions
                  /\ needsTransformerForUnion(MemberKinds(graph, u), graph[u].attrs))
               => IsPlaceholderOf(result[builder.reconstituted[t]].children[i], u)

\* C6's case: the pass has returned, and both the class and a member of a
\* qualifying union refer to a qualifying union.
C6_Witness ==
    /\ pc = "done"
    /\ graph[ClassNode].children[1] \in groups
    /\ \E u \in groups : \E i \in DOMAIN graph[u].children :
          graph[graph[u].children[i]].children = <<u>>

\* Whether the target's predicate flags old union u.
Qualifies(u) == needsTransformerForUnion(MemberKinds(graph, u), graph[u].attrs)

\* C7: the image of a union the predicate does not flag is a union over the
\* images of its members, with the same member kinds and no Transformation;
\* and when the predicate flags no union, the returned graph is the input
\* node for node and no node carries a Transformation.
C7_OtherUnionsUnchanged ==
    /\ \A u \in Unions :
          (~Qualifies(u) /\ u \in DOMAIN builder.reconstituted) =>
              LET node == builder.types[builder.reconstituted[u]]
              IN /\ node.kind = "union"
                 /\ node.children = Images(graph[u].children)
                 /\ KindsOf(builder.types, node.children) = MemberKinds(graph, u)
                 /\ ~HasTransformation(node)
    /\ (pc = "done" /\ \A u \in Unions : ~Qualifies(u)) =>
          /\ DOMAIN result = {builder.reconstituted[t] : t \in OldNodes}
          /\ \A s, t \in OldNodes :
                builder.reconstituted[s] = builder.reconstituted[t] => s = t
          /\ \A t \in OldNodes :
                result[builder.reconstituted[t]] =
                    [kind |-> graph[t].kind,
                     children |-> Images(graph[t].children),
                     attrs |-> graph[t].attrs]
          /\ \A n \in DOMAIN result : ~HasTransformation(result[n])

\* C7's case: the pass has returned a graph in which one union was replaced
\* and another, referenced by the class, was not.
C7_Witness ==
    /\ pc = "done"
    /\ replaced # {}
    /\ \E u \in Unions \ groups : graph[ClassNode].children = <<u>>

\* C8: while a flagged union has no members the pass does not return; the
\* union's replacer leaves the forwarding slot unbound and builds no node
\* for the group, and the pass fails on replace's own assertion.
C8_EmptyUnionAborts ==
    \A u \in Unions :
        (Qualifies(u) /\ graph[u].children = <<>>) =>
            /\ pc # "done"
            /\ u \notin replaced
            /\ \A id \in DOMAIN builder.types :
                  id[2] = u => (id = ForwardingRef(u) /\ builder.types[id] = Unbound)
            /\ pc = "failed" => failure = "We can't have empty unions"

\* C8's case: the pass has aborted on an empty union after another group
\* was replaced.
C8_Witness ==
    /\ pc = "failed"
    /\ replaced # {}
    /\ \E u \in groups : graph[u].children = <<>>

\* C9: getChildren() on a placeholder's Transformation returns exactly the
\* Types the transformer tree references plus the target; for a union of
\* null, integer, double, bool and string these are 6 distinct Types, the 5
\* reconstituted members and the target union.
C9_ChildrenAreMembersAndTarget ==
    \A u \in groups :
        (pc = "done" /\ observed # NoObservation /\ observed.node.ref = ForwardingRef(u)) =>
            /\ observed.children.ok
            /\ MemberKinds(graph, u) = ScalarKinds =>
                  /\ Cardinality(observed.children.value) = 6
                  /\ observed.children.value =
                        RangeOf(Images(graph[u].children))
                            \cup {targetType(TransformationOf(u))}

\* C10: for two trees built independently over one generation, equals is
\* true exactly when they are the same variant with every slot absent in
\* both or equal in both and every TypeRef on the same node (that is, when
\* they are the same value); it is reflexive and symmetric; and equal trees
\* have equal hash codes.  The same for Transformations.
C10_EqualsIsStructural ==
    cmp # Undefined =>
        /\ cmp.ab <=> (xa = xb)
        /\ cmp.aa
        /\ cmp.ab <=> cmp.ba
        /\ cmp.ab => cmp.ha = cmp.hb

\* C10's case: two trees that differ in one nested slot only have been
\* compared, and so have two equal nested trees.
C10_WitnessDiffer ==
    /\ cmp # Undefined
    /\ xa # xb
    /\ xa.variant = "Decoding" /\ xb.variant = "Decoding"
    /\ \E k \in ShapeSet :
          /\ xa.slots[k].variant = "Decoding" /\ xb.slots[k].variant = "Decoding"
          /\ xa.slots[k] # xb.slots[k]
          /\ \A j \in ShapeSet \ {k} : xa.slots[j] = xb.slots[j]

C10_Witness ==
    /\ cmp # Undefined
    /\ xa = xb
    /\ xa.variant = "Decoding"
    /\ \E k \in ShapeSet :
          /\ xa.slots[k].variant = "Decoding"
          /\ Populated(xa.slots[k]) # {}

Complete(types) ==
    /\ replaced = groups
    /\ \A t \in DOMAIN graph :
          t \in DOMAIN builder.reconstituted /\ builder.reconstituted[t] \in DOMAIN types
    /\ \A id \in DOMAIN types :
          /\ types[id] # Unbound
          /\ RangeOf(types[id].children) \subseteq DOMAIN types

\* C13: makeTransformations never changes the old generation, whether it
\* completes or aborts; no generation is published before the pass completes
\* or after it aborted (even when other groups were replaced before), and the
\* generation a completed pass publishes is complete.
C13_AllOrNothing ==
    /\ [][graph' = graph]_vars
    /\ [](pc # "done" => result = EmptyFcn)
    /\ [](pc = "done" => result # EmptyFcn /\ Complete(result))

\* C13's case: the pass aborted on an empty union after the replacer of
\* another group had run.
C13_Witness ==
    /\ pc = "failed"
    /\ replaced # {}
    /\ \E u \in groups \ replaced : graph[u].children = <<>>

\* The rewrite run in one fixed order: the replacers of the groups us one
\* after the other, then every old node in ascending order.
RECURSIVE replaceInOrder(_, _, _)
replaceInOrder(g, bd, us) ==
    IF us = <<>>
    THEN bd
    ELSE LET r == replace(g, [bd EXCEPT !.current = Head(us)], Head(us),
                          ForwardingRef(Head(us)))
         IN replaceInOrder(g, [r.bd EXCEPT !.current = 0], Tail(us))

rewriteInOrder(g) ==
    LET bd == replaceInOrder(g, NewBuilder(QualifyingUnions(g)),
                             SeqOfSet(QualifyingUnions(g)))
    IN reconstituteAll(g, bd, SeqOfSet(DOMAIN g)).bd.types

RECURSIVE RefsOf(_)
RefsOf(x) ==
    IF x.variant = "TypeRef" THEN {x}
    ELSE IF x.variant = "UnionInstantiation" THEN RefsOf(x.unionRef)
    ELSE IF x.variant = "Decoding" THEN UNION {RefsOf(x.slots[k]) : k \in ShapeSet}
    ELSE IF x.variant = "Transformation"
    THEN RefsOf(x.targetTypeRef) \cup RefsOf(x.transformer)
    ELSE {}

\* A reference resolves in a generation when it names a node written there.
Resolves(types, id) == id \in DOMAIN types /\ types[id] # Unbound

NoDanglingReference(types) ==
    \A id \in DOMAIN types :
        /\ types[id] # Unbound
        /\ \A i \in DOMAIN types[id].children : Resolves(types, types[id].children[i])
        /\ \A r \in RefsOf(types[id].attrs.transformation) : Resolves(types, r.ref)

Placeholders(g) == {n \in DOMAIN g : g[n].attrs.transformation # NoTransformation}

\* C15: makeTransformations applied again, with the same predicate, to the
\* graph it returned selects no union and returns; the graph it returns is
\* its input, with no placeholder more, and the target of every
\* placeholder's Transformation is a union.
C15_Idempotent ==
    pass > 1 =>
        /\ pc # "idle" => groups = {}
        /\ pc # "failed"
        /\ pc = "done" =>
              /\ AsGraph(result) = graph
              /\ Placeholders(AsGraph(result)) = Placeholders(graph)
              /\ \A n \in Placeholders(AsGraph(result)) :
                    AsGraph(result)[targetType(transformationForType(AsGraph(result)[n]))].kind
                        = "union"

\* The second pass, where the first one replaced a union: it selects again.
SecondPassReselects ==
    (pass > 1 /\ pc # "idle") =>
        groups = {targetType(transformationForType(graph[n])) : n \in Placeholders(graph)}

\* The second pass returns only where the first one replaced no union.
SecondPassReturnsWithoutPlaceholders ==
    (pass > 1 /\ pc = "done") => (Placeholders(graph) = {} /\ AsGraph(result) = graph)

\* The second pass aborts only where the first one replaced a union, and then
\* in reconstituting a placeholder's Transformation.
SecondPassAbortsWithPlaceholders ==
    (pass > 1 /\ pc = "failed") =>
        (Placeholders(graph) # {} /\ failure = "TypeError: xf.reconstitute is not a function")

====
